---- MODULE Spec2Model ----
(***************************************************************************)
(* Model of pikax/util.py: the request-with-retry function req and the     *)
(* progress printer (class Printer: print_progress / print_done).          *)
(*                                                                         *)
(* Numbers.  Python floats are modelled as exact rationals [n, d] in       *)
(* lowest terms with d > 0; float("inf") and None are separate kinds of    *)
(* the same record so that values of one field stay comparable.  Time is   *)
(* counted in integer ticks.  On the inputs enumerated below the float     *)
(* results of floor(curr / total * 100) and of round(a / b) agree with the *)
(* exact ones computed here.                                               *)
(***************************************************************************)
EXTENDS Integers, Sequences, FiniteSets, TLC

VARIABLES
    \* ---- Printer (util.py 202-268) and its caller
    printer,        \* the Printer instance: a record of its attributes
    twin,           \* a second Printer instance, constructed at the last reset point
    now,            \* the clock read by time.time()
    pcall,          \* the last Printer call: kind, inputs, branch taken, what it gave to log
    tcall,          \* the same call as made on the twin instance
    ncalls,         \* number of Printer calls made so far
    \* ---- req (util.py 120-163), one activation per thread
    rq,             \* per thread: the activation's locals and position
    settings        \* settings.REQUEST_RETRY_DELAY, settings.DELAY_PER_REQUEST

pvars == <<printer, twin, now, pcall, tcall, ncalls>>
rvars == <<rq, settings>>
vars == <<printer, twin, now, pcall, tcall, ncalls, rq, settings>>

-----------------------------------------------------------------------------
(* Bounds of the model *)

MaxCalls == 3       \* Printer calls in one behaviour
MaxRetries == 3     \* the retries argument of req ranges over 0..MaxRetries
NumThreads == 2     \* threads that may run req
MaxPairRetries == 2 \* largest retries argument of two calls that run side by side
MaxLoopCalls == 9   \* Printer calls in one behaviour of a caller that counts up

-----------------------------------------------------------------------------
(* Arithmetic on the values the Printer stores *)

Abs(x) == IF x < 0 THEN 0 - x ELSE x

RECURSIVE Gcd(_, _)
Gcd(a, b) == IF b = 0 THEN a ELSE Gcd(b, a % b)

\* the float n / d (d # 0), in lowest terms with a positive denominator
Num(n, d) ==
    LET g == Gcd(Abs(n), Abs(d))
        s == IF d < 0 THEN 0 - 1 ELSE 1
    IN  [k |-> "num", n |-> (s * n) \div g, d |-> (s * d) \div g]

Whole(i) == [k |-> "num", n |-> i, d |-> 1]      \* an int, or a float with an integral value
Inf == [k |-> "inf", n |-> 0, d |-> 1]          \* float("inf")
None == [k |-> "none", n |-> 0, d |-> 1]        \* None in a numeric attribute

Add(a, b) == Num(a.n * b.d + b.n * a.d, a.d * b.d)
DivInt(a, i) == Num(a.n, a.d * i)               \* a / i, i # 0

RECURSIVE Sum(_)
Sum(s) == IF s = <<>> THEN Whole(0) ELSE Add(Head(s), Sum(Tail(s)))

\* Python round() of the float n / d, d # 0: to nearest, ties to even
Round(n, d) ==
    LET q == Num(n, d)
        fl == q.n \div q.d
        r2 == 2 * (q.n - fl * q.d)
    IN  IF r2 < q.d THEN fl
        ELSE IF r2 > q.d THEN fl + 1
        ELSE IF fl % 2 = 0 THEN fl ELSE fl + 1

\* Python lst[start:], start of either sign
SliceFrom(lst, start) ==
    LET len == Len(lst)
        lo == IF start < 0
              THEN (IF len + start < 0 THEN 0 ELSE len + start)
              ELSE (IF start > len THEN len ELSE start)
    IN  SubSeq(lst, lo + 1, len)

\* Python truthiness of an optional message (None and "" are falsy)
NoMsg == "<None>"
Truthy(msg) == msg # NoMsg /\ msg # ""

-----------------------------------------------------------------------------
(* class Printer *)

\* a line handed to log(): the texts.* template used and the values formatted into it
Line(form, curr, total, pct, time_left, msg, time_taken) ==
    [form |-> form, curr |-> curr, total |-> total, curr_percent |-> pct,
     time_left |-> time_left, msg |-> msg, time_taken |-> time_taken]

NoLine == Line("None", 0, 0, 0, None, NoMsg, None)

\* Printer.__init__
PrinterNew ==
    [is_first_print |-> TRUE,
     last_percent |-> None,
     last_percent_time_left |-> None,
     last_percent_print_time |-> None,
     est_time_lefts |-> <<Whole(0), Whole(0), Whole(0), Whole(0), Whole(0)>>,
     start_time |-> None,
     last_printed_line |-> NoLine]

\* a smoothing that averages the whole window when no chunk is left
Smooth_ZeroChunkAverages(lefts, curr_percent, last_percent) ==
    LET percent_left == 100 - curr_percent
        percent_diff == curr_percent - last_percent
        chunk_left == Round(percent_left, percent_diff)
    IN  IF chunk_left < Len(lefts) /\ chunk_left # 0
        THEN DivInt(Sum(SliceFrom(lefts, 0 - chunk_left)), chunk_left)
        ELSE DivInt(Sum(lefts), Len(lefts))

\* the smoothing step of print_progress: the estimate from the window after the push
Smooth(lefts, curr_percent, last_percent) ==
    LET percent_left == 100 - curr_percent
        percent_diff == curr_percent - last_percent
        chunk_left == Round(percent_left, percent_diff)
    IN  IF chunk_left < Len(lefts)
        THEN IF chunk_left # 0
             THEN DivInt(Sum(SliceFrom(lefts, 0 - chunk_left)), chunk_left)
             ELSE Whole(0)
        ELSE DivInt(Sum(lefts), Len(lefts))

\* the text print_progress builds from the estimate
ProgressText(curr, total, curr_percent, est_time_left, msg) ==
    LET m == IF Truthy(msg) THEN msg ELSE NoMsg
    IN  IF est_time_left # Whole(0)
        THEN Line("PROGRESS_WITH_TIME_LEFT", curr, total, curr_percent, est_time_left, m, None)
        ELSE Line("PROGRESS_TEXT", curr, total, curr_percent, None, m, None)

\* a first print that leaves the first-print flag set
FirstPrint_KeepsFlag(self, curr_time, t2) ==
    [self |-> [self EXCEPT !.last_percent_time_left = Inf,
                           !.last_percent_print_time = Whole(curr_time),
                           !.start_time = Whole(t2)],
     est |-> Inf]

\* the branch of the first print of an operation: the estimate is float("inf")
FirstPrint(self, curr_time, t2) ==
    [self |-> [self EXCEPT !.is_first_print = FALSE,
                           !.last_percent_time_left = Inf,
                           !.last_percent_print_time = Whole(curr_time),
                           !.start_time = Whole(t2)],
     est |-> Inf]

\* an unchanged percent that pushes the last estimate into the window again
SamePercent_Pushes(self) ==
    [self |-> [self EXCEPT !.est_time_lefts =
                               Tail(Append(@, self.last_percent_time_left))],
     est |-> self.last_percent_time_left]

\* the branch of an unchanged percent: the last estimate again
SamePercent(self) ==
    [self |-> self, est |-> self.last_percent_time_left]

\* a changed percent that also restarts the operation's clock
Advance_RestartsClock(self, curr_percent, curr_time) ==
    LET bad_est_time_left ==
            Num((curr_time - self.last_percent_print_time.n) * (100 - curr_percent),
                curr_percent - self.last_percent.n)
        lefts == Tail(Append(self.est_time_lefts, bad_est_time_left))
        est_time_left == Smooth(lefts, curr_percent, self.last_percent.n)
    IN  [self |-> [self EXCEPT !.est_time_lefts = lefts,
                               !.last_percent_time_left = est_time_left,
                               !.last_percent_print_time = Whole(curr_time),
                               !.start_time = Whole(curr_time)],
         est |-> est_time_left]

\* the branch of a changed percent: push a sample, smooth, remember
Advance(self, curr_percent, curr_time) ==
    LET bad_est_time_left ==
            Num((curr_time - self.last_percent_print_time.n) * (100 - curr_percent),
                curr_percent - self.last_percent.n)
        lefts == Tail(Append(self.est_time_lefts, bad_est_time_left))
        est_time_left == Smooth(lefts, curr_percent, self.last_percent.n)
    IN  [self |-> [self EXCEPT !.est_time_lefts = lefts,
                               !.last_percent_time_left = est_time_left,
                               !.last_percent_print_time = Whole(curr_time)],
         est |-> est_time_left]

\* Printer.print_progress(curr, total, msg); t1 and t2 are its two reads of
\* time.time().  Gives the instance afterwards, the estimate reported, the
\* line logged, the branch taken and the exception raised, if any: curr / 0
\* raises ZeroDivisionError, and curr_time - None, curr_percent - None raise
\* TypeError before anything is assigned.
print_progress(self, curr, total, msg, t1, t2) ==
    IF total = 0
    THEN [self |-> self, est |-> None, out |-> NoLine, branch |-> "raise",
          err |-> "ZeroDivisionError"]
    ELSE IF /\ ~self.is_first_print
            /\ self.last_percent # Whole((curr * 100) \div total)
            /\ (self.last_percent_print_time = None \/ self.last_percent = None)
    THEN [self |-> self, est |-> None, out |-> NoLine, branch |-> "raise",
          err |-> "TypeError"]
    ELSE
    LET curr_percent == (curr * 100) \div total
        curr_time == t1
        branch == IF self.is_first_print THEN "first"
                  ELSE IF self.last_percent = Whole(curr_percent) THEN "same"
                  ELSE "advance"
        b == CASE branch = "first" -> FirstPrint(self, curr_time, t2)
               [] branch = "same" -> SamePercent(self)
               [] OTHER -> Advance(self, curr_percent, curr_time)
        text == ProgressText(curr, total, curr_percent, b.est, msg)
    IN  [self |-> [b.self EXCEPT !.last_percent = Whole(curr_percent),
                                 !.last_printed_line = text],
         est |-> b.est, out |-> text, branch |-> branch, err |-> "none"]

\* a reset that leaves the first-print flag as it is
Reset_KeepsFlag(self) ==
    [self EXCEPT !.start_time = None,
                 !.last_percent = None,
                 !.last_percent_print_time = None,
                 !.last_percent_time_left = None,
                 !.last_printed_line = NoLine,
                 !.est_time_lefts = <<Whole(0), Whole(0), Whole(0)>>]

\* the attribute resets at the end of print_done
Reset(self) ==
    [self EXCEPT !.is_first_print = TRUE,
                 !.start_time = None,
                 !.last_percent = None,
                 !.last_percent_print_time = None,
                 !.last_percent_time_left = None,
                 !.last_printed_line = NoLine,
                 !.est_time_lefts = <<Whole(0), Whole(0), Whole(0)>>]

\* a print_done that looks at the first-print flag before the message
DoneLine_FlagFirst(self, msg, t) ==
    IF self.is_first_print
    THEN Line("DONE", 0, 0, 0, None, NoMsg, None)
    ELSE IF Truthy(msg)
         THEN Line("DONE_MSG", 0, 0, 0, None, msg, None)
         ELSE Line("DONE_TIME_TAKEN", 0, 0, 0, None, NoMsg, Whole(t - self.start_time.n))

\* the line print_done logs; t is its read of time.time()
DoneLine(self, msg, t) ==
    IF Truthy(msg)
    THEN Line("DONE_MSG", 0, 0, 0, None, msg, None)
    ELSE IF self.is_first_print
         THEN Line("DONE", 0, 0, 0, None, NoMsg, None)
         ELSE Line("DONE_TIME_TAKEN", 0, 0, 0, None, NoMsg, Whole(t - self.start_time.n))

\* Printer.print_done(msg).  time.time() - None raises TypeError before any reset.
print_done(self, msg, t) ==
    IF ~Truthy(msg) /\ ~self.is_first_print /\ self.start_time = None
    THEN [self |-> self, est |-> None, out |-> NoLine, branch |-> "raise",
          err |-> "TypeError"]
    ELSE [self |-> Reset(self), est |-> None, out |-> DoneLine(self, msg, t),
          branch |-> "done", err |-> "none"]

-----------------------------------------------------------------------------
(* The caller of the Printer: print_progress(curr, total, msg) and           *)
(* print_done(msg) in any order, on a clock that never runs backwards        *)

Totals == {4, 5}                \* the totals passed to print_progress
UpdateMsgs == {NoMsg, "ok"}     \* the messages passed to print_progress
DoneMsgs == {NoMsg, "", "ok"}   \* the messages passed to print_done
Steps == {0, 1}                 \* ticks that pass before and during one call

\* what is remembered of a call: its inputs, what it did, the kind of the call
\* before it, the number of print_progress calls of the operation so far, and the
\* time at which the first of them read the start time
Call(kind, curr, total, msg, r, prev, nupd, t0) ==
    [kind |-> kind, curr |-> curr, total |-> total, msg |-> msg,
     est |-> r.est, out |-> r.out, branch |-> r.branch, err |-> r.err,
     prev |-> prev, nupd |-> nupd, t0 |-> t0]

NoCall ==
    Call("none", 0, 0, NoMsg,
         [est |-> None, out |-> NoLine, branch |-> "none", err |-> "none"],
         "none", 0, 0)

\* the call record of print_progress / print_done made after the call `last`
UpdateCall(last, curr, total, msg, r, t2) ==
    Call("update", curr, total, msg, r, last.kind,
         IF last.kind = "update" THEN last.nupd + 1 ELSE 1,
         IF last.kind = "update" THEN last.t0 ELSE t2)

FinishCall(last, msg, r) ==
    Call("finish", 0, 0, msg, r, last.kind,
         IF last.kind = "update" THEN last.nupd ELSE 0,
         IF last.kind = "update" THEN last.t0 ELSE 0)

PrinterInit ==
    /\ printer = PrinterNew
    /\ twin = PrinterNew
    /\ now = 0
    /\ pcall = NoCall
    /\ tcall = NoCall
    /\ ncalls = 0

\* a call is possible while no exception has ended the caller
CanCall == ncalls < MaxCalls /\ pcall.err = "none"

\* util.print_progress(curr, total, msg) on the module's printer
Update(curr, total, msg, d1, d2) ==
    LET r == print_progress(printer, curr, total, msg, now + d1, now + d1 + d2)
    IN  /\ CanCall
        /\ printer' = r.self
        /\ pcall' = UpdateCall(pcall, curr, total, msg, r, now + d1 + d2)
        /\ now' = now + d1 + d2
        /\ ncalls' = ncalls + 1

\* util.print_done(msg) on the module's printer
Finish(msg, d) ==
    LET r == print_done(printer, msg, now + d)
    IN  /\ CanCall
        /\ printer' = r.self
        /\ pcall' = FinishCall(pcall, msg, r)
        /\ now' = now + d
        /\ ncalls' = ncalls + 1

PrinterUpdate ==
    \E total \in Totals : \E curr \in 0..total : \E msg \in UpdateMsgs :
        \E d1 \in Steps : \E d2 \in {d \in Steps : d1 + d \in Steps} :
            Update(curr, total, msg, d1, d2) /\ UNCHANGED <<twin, tcall>> /\ UNCHANGED rvars

PrinterFinish ==
    \E msg \in DoneMsgs : \E d \in Steps :
        Finish(msg, d) /\ UNCHANGED <<twin, tcall>> /\ UNCHANGED rvars

\* a caller that counts up: within one operation the total stays and curr
\* grows with every print_progress, and print_done follows the call that
\* reached the total
CanLoop == ncalls < MaxLoopCalls /\ pcall.err = "none"

LoopUpdate ==
    \E total \in Totals : \E curr \in 0..total :
        \E d1 \in Steps : \E d2 \in {d \in Steps : d1 + d \in Steps} :
            LET r == print_progress(printer, curr, total, NoMsg, now + d1, now + d1 + d2)
            IN  /\ CanLoop
                /\ pcall.kind = "update" => total = pcall.total /\ curr > pcall.curr
                /\ printer' = r.self
                /\ pcall' = UpdateCall(pcall, curr, total, NoMsg, r, now + d1 + d2)
                /\ now' = now + d1 + d2
                /\ ncalls' = ncalls + 1
                /\ UNCHANGED <<twin, tcall>> /\ UNCHANGED rvars

LoopFinish ==
    \E d \in Steps :
        LET r == print_done(printer, NoMsg, now + d)
        IN  /\ CanLoop
            /\ pcall.kind = "update" => pcall.curr = pcall.total
            /\ printer' = r.self
            /\ pcall' = FinishCall(pcall, NoMsg, r)
            /\ now' = now + d
            /\ ncalls' = ncalls + 1
            /\ UNCHANGED <<twin, tcall>> /\ UNCHANGED rvars

\* the same calls made on the module's printer and on a Printer constructed at
\* the last reset point: at the start, and anew after each print_done
TwinUpdate ==
    \E total \in Totals : \E curr \in 0..total : \E msg \in UpdateMsgs :
        \E d1 \in Steps : \E d2 \in {d \in Steps : d1 + d \in Steps} :
            /\ Update(curr, total, msg, d1, d2)
            /\ LET r == print_progress(twin, curr, total, msg, now + d1, now + d1 + d2)
               IN  /\ twin' = r.self
                   /\ tcall' = UpdateCall(tcall, curr, total, msg, r, now + d1 + d2)
            /\ UNCHANGED rvars

TwinFinish ==
    \E msg \in DoneMsgs : \E d \in Steps :
        /\ Finish(msg, d)
        /\ twin' = PrinterNew
        /\ tcall' = NoCall
        /\ UNCHANGED rvars

-----------------------------------------------------------------------------
(* req(url, req_type, session, ..., err_msg, log_req, retries)               *)

Threads == 1..NumThreads
MainThread == 1
OtherThread == 2
Pair == {MainThread, OtherThread}   \* two threads that are in req at the same time

\* a method name left as it was passed in
Upper_AsGiven(str) == str

\* str.upper() on the method names passed in
Upper(str) ==
    CASE str = "get" -> "GET"
      [] str = "Get" -> "GET"
      [] str = "post" -> "POST"
      [] str = "put" -> "PUT"
      [] OTHER -> str

ReqTypes == {"GET", "get", "Get", "post", "put"}

\* a requests.Response: falsy exactly when its status is a 4xx or 5xx error
Response(status_code, attempt) ==
    [kind |-> "Response", status_code |-> status_code,
     ok |-> ~(status_code >= 400 /\ status_code < 600), attempt |-> attempt]

\* what one call of the requester can give: a response, or one of the two
\* exceptions req catches
Raised(kind, attempt) ==
    [kind |-> kind, status_code |-> 0, ok |-> FALSE, attempt |-> attempt]

Statuses == {200, 500, 600}
Outcomes(attempt) ==
    {Response(st, attempt) : st \in Statuses}
        \cup {Raised("Timeout", attempt), Raised("RequestException", attempt)}

NoRes == Raised("None", 0)

\* the outcomes met by two calls that run side by side
PairStatuses == {200, 500}
PairOutcomes(attempt) ==
    {Response(st, attempt) : st \in PairStatuses} \cup {Raised("Timeout", attempt)}

\* a check that forgets the status code
IsSuccess_TruthyOnly(res) == res.kind = "Response" /\ res.ok

\* the check of the response in the try block: TRUE when req returns it
IsSuccess(res) == res.kind = "Response" /\ res.ok /\ ~(res.status_code >= 400)

\* a loop that runs once more
LoopCond_OffByOne(curr_retries, retries) == curr_retries <= retries

\* the loop condition of req
LoopCond(curr_retries, retries) == curr_retries < retries

\* the number of log() calls an attempt makes when log_req is set
LogLines(res, err_msg) ==
    CASE res.kind = "Timeout" -> 1 + 2
      [] res.kind = "RequestException" -> 1 + 2 + (IF err_msg THEN 1 ELSE 0)
      [] IsSuccess(res) -> 1 + 1
      [] OTHER -> 1 + 1 + 1

\* a thread that is not in req
Idle ==
    [pc |-> "idle", method |-> "", req_type |-> "", requester |-> "", verbs |-> <<>>,
     retries |-> 0,
     log_req |-> FALSE, err_msg |-> FALSE, curr_retries |-> 0, res |-> NoRes,
     seen |-> <<>>, trace |-> <<>>, logs |-> 0, result |-> NoRes]

ReqInit ==
    /\ rq = [t \in Threads |-> Idle]
    /\ settings \in [REQUEST_RETRY_DELAY : {None, Whole(1)},
                      DELAY_PER_REQUEST : {None, Whole(1)}]

\* lines 120-123: the call, up to the loop
ReqCall(t, req_type, retries, log_req, err_msg) ==
    /\ rq[t].pc = "idle"
    /\ rq' = [rq EXCEPT ![t] =
                [Idle EXCEPT !.pc = "while",
                             !.curr_retries = 0,
                             !.method = req_type,
                             !.req_type = Upper(req_type),
                             !.requester = IF "GET" = Upper(req_type) THEN "get" ELSE "post",
                             !.retries = retries,
                             !.log_req = log_req,
                             !.err_msg = err_msg]]
    /\ UNCHANGED settings

\* line 124, condition true: enter the loop body
ReqLoop(t) ==
    /\ rq[t].pc = "while"
    /\ LoopCond(rq[t].curr_retries, rq[t].retries)
    /\ rq' = [rq EXCEPT ![t].pc = "try"]
    /\ UNCHANGED settings

\* line 124, condition false, and line 163: raise ReqException
ReqExhausted(t) ==
    /\ rq[t].pc = "while"
    /\ ~LoopCond(rq[t].curr_retries, rq[t].retries)
    /\ rq' = [rq EXCEPT ![t].pc = "raised", ![t].result = Raised("ReqException", 0)]
    /\ UNCHANGED settings

\* an attempt without the except clause for Timeout
ReqTry_TimeoutEscapes(t, res) ==
    /\ rq[t].pc = "try"
    /\ rq' = [rq EXCEPT ![t].res = res,
                         ![t].seen = Append(@, res),
                         ![t].trace = Append(@, "attempt"),
                         ![t].verbs = Append(@, rq[t].requester),
                         ![t].result = IF res.kind = "Timeout" THEN res ELSE @,
                         ![t].pc = IF res.kind = "Timeout" THEN "raised"
                                   ELSE IF IsSuccess(res) THEN "success" ELSE "failed"]
    /\ UNCHANGED settings

\* lines 125-156: one attempt, its classification and its logging
ReqTry(t, res) ==
    /\ rq[t].pc = "try"
    /\ rq' = [rq EXCEPT ![t].res = res,
                         ![t].seen = Append(@, res),
                         ![t].trace = Append(@, "attempt"),
                         ![t].verbs = Append(@, rq[t].requester),
                         ![t].logs = IF rq[t].log_req
                                     THEN @ + LogLines(res, rq[t].err_msg) ELSE @,
                         ![t].pc = IF IsSuccess(res) THEN "success" ELSE "failed"]
    /\ UNCHANGED settings

\* lines 143-145: the delay per request, then return res
ReqReturn(t) ==
    /\ rq[t].pc = "success"
    /\ rq' = [rq EXCEPT ![t].trace = IF settings.DELAY_PER_REQUEST # None
                                     THEN Append(@, "request_delay") ELSE @,
                         ![t].result = rq[t].res,
                         ![t].pc = "returned"]
    /\ UNCHANGED settings

\* a retry counter that all the calls in flight share
ReqRetry_SharedCounter(t) ==
    /\ rq[t].pc = "failed"
    /\ rq' = [u \in Threads |->
                IF u = t
                THEN [rq[u] EXCEPT !.curr_retries = @ + 1,
                                   !.trace = IF settings.REQUEST_RETRY_DELAY # None
                                             THEN Append(@, "retry_delay") ELSE @,
                                   !.pc = "while"]
                ELSE IF rq[u].pc # "idle"
                     THEN [rq[u] EXCEPT !.curr_retries = @ + 1]
                     ELSE rq[u]]
    /\ UNCHANGED settings

\* lines 158-160: count the failed attempt, sleep the retry delay
ReqRetry(t) ==
    /\ rq[t].pc = "failed"
    /\ rq' = [rq EXCEPT ![t].curr_retries = @ + 1,
                         ![t].trace = IF settings.REQUEST_RETRY_DELAY # None
                                     THEN Append(@, "retry_delay") ELSE @,
                         ![t].pc = "while"]
    /\ UNCHANGED settings

\* lines 125-126 and 330-342: log prints the request line before the attempt, and
\* print raises (a console that cannot encode the line, a closed stream); the
\* line is outside the try statement, so the exception leaves req
ReqLogRequestRaises(t) ==
    /\ rq[t].pc = "try"
    /\ rq[t].log_req
    /\ rq' = [rq EXCEPT ![t].logs = @ + 1,
                         ![t].result = Raised("OSError", Len(rq[t].seen) + 1),
                         ![t].pc = "raised"]
    /\ UNCHANGED settings

\* lines 131-156 and 330-342: the attempt is made, and log raises on a line
\* about its result (print, or open(settings.LOG_FILE) for save=True); no
\* except clause of req matches, so the exception leaves req
ReqLogResultRaises(t, res) ==
    /\ rq[t].pc = "try"
    /\ rq[t].log_req
    /\ rq' = [rq EXCEPT ![t].res = res,
                         ![t].seen = Append(@, res),
                         ![t].trace = Append(@, "attempt"),
                         ![t].verbs = Append(@, rq[t].requester),
                         ![t].logs = @ + 1 + 1,
                         ![t].result = Raised("OSError", res.attempt),
                         ![t].pc = "raised"]
    /\ UNCHANGED settings

\* the caller has the response or the exception; the activation is gone
ReqEnd(t) ==
    /\ rq[t].pc \in {"returned", "raised"}
    /\ rq' = [rq EXCEPT ![t] = Idle]
    /\ UNCHANGED settings

-----------------------------------------------------------------------------
(* Specifications *)

\* req called by one thread, one call after the other
FetchCall ==
    \E req_type \in ReqTypes, retries \in 0..MaxRetries, log_req \in BOOLEAN,
       err_msg \in BOOLEAN :
        ReqCall(MainThread, req_type, retries, log_req, err_msg) /\ UNCHANGED pvars
FetchLoop == ReqLoop(MainThread) /\ UNCHANGED pvars
FetchExhausted == ReqExhausted(MainThread) /\ UNCHANGED pvars
FetchTry ==
    \E res \in Outcomes(Len(rq[MainThread].seen) + 1) :
        ReqTry(MainThread, res) /\ UNCHANGED pvars
FetchReturn == ReqReturn(MainThread) /\ UNCHANGED pvars
FetchRetry == ReqRetry(MainThread) /\ UNCHANGED pvars
FetchEnd == ReqEnd(MainThread) /\ UNCHANGED pvars

\* req called by two threads at once, with a console and a log file that may
\* refuse a line
PairCall ==
    \E t \in Pair : \E retries \in 0..MaxPairRetries, log_req \in BOOLEAN :
        ReqCall(t, "get", retries, log_req, FALSE) /\ UNCHANGED pvars
PairLoop == \E t \in Pair : ReqLoop(t) /\ UNCHANGED pvars
PairExhausted == \E t \in Pair : ReqExhausted(t) /\ UNCHANGED pvars
PairTry ==
    \E t \in Pair : \E res \in PairOutcomes(Len(rq[t].seen) + 1) :
        ReqTry(t, res) /\ UNCHANGED pvars
PairReturn == \E t \in Pair : ReqReturn(t) /\ UNCHANGED pvars
PairRetry == \E t \in Pair : ReqRetry(t) /\ UNCHANGED pvars
PairEnd == \E t \in Pair : ReqEnd(t) /\ UNCHANGED pvars
PairLogRequestRaises == \E t \in Pair : ReqLogRequestRaises(t) /\ UNCHANGED pvars
PairLogResultRaises ==
    \E t \in Pair : \E res \in PairOutcomes(Len(rq[t].seen) + 1) :
        ReqLogResultRaises(t, res) /\ UNCHANGED pvars

PairNext ==
    \/ PairCall
    \/ PairLoop
    \/ PairExhausted
    \/ PairTry
    \/ PairReturn
    \/ PairRetry
    \/ PairEnd
    \/ PairLogRequestRaises
    \/ PairLogResultRaises

FetchNext ==
    \/ FetchCall
    \/ FetchLoop
    \/ FetchExhausted
    \/ FetchTry
    \/ FetchReturn
    \/ FetchRetry
    \/ FetchEnd

PrinterNext == PrinterUpdate \/ PrinterFinish
TwinNext == TwinUpdate \/ TwinFinish
LoopNext == LoopUpdate \/ LoopFinish

\* the state after import with no delay configured: printer = Printer(),
\* no call of req in flight
QuietInit ==
    /\ printer = PrinterNew
    /\ twin = PrinterNew
    /\ now = 0
    /\ pcall = NoCall
    /\ tcall = NoCall
    /\ ncalls = 0
    /\ rq = [t \in Threads |-> Idle]
    /\ settings = [REQUEST_RETRY_DELAY |-> None, DELAY_PER_REQUEST |-> None]

Init == PrinterInit /\ ReqInit
Next == PrinterNext \/ FetchNext
Spec == Init /\ [][Next]_vars

FetchSpec == Init /\ [][FetchNext]_vars
PrinterSpec == QuietInit /\ [][PrinterNext]_vars
TwinSpec == QuietInit /\ [][TwinNext]_vars
LoopSpec == QuietInit /\ [][LoopNext]_vars
PairSpec == Init /\ [][PairNext]_vars

-----------------------------------------------------------------------------
(* Properties of req *)

\* the classes of an attempt's outcome, as the retry contract names them
Transient(o) ==
    \/ o.kind \in {"Timeout", "RequestException"}
    \/ o.kind = "Response" /\ (~o.ok \/ o.status_code >= 400)
Succeeds(o) == o.kind = "Response" /\ o.ok /\ o.status_code < 400

AllTransient(seq) == \A i \in DOMAIN seq : Transient(seq[i])
Count(seq, e) == Cardinality({i \in DOMAIN seq : seq[i] = e})
Ended(c) == c.pc \in {"returned", "raised"}

C3_ZeroRetriesOneAttempt ==
    \A t \in Threads :
        LET c == rq[t]
        IN  (Ended(c) /\ c.retries = 0) =>
                /\ Len(c.seen) = 1
                /\ c.pc = "raised" => Transient(c.seen[1])
                /\ c.pc = "returned" => c.result = c.seen[1]

\* C4: the retry delay is slept only between two attempts of a call: never as
\* the last thing a call does, so N - 1 times in a call that exhausts N attempts;
\* and never when the delay is None.
C4_SleepOnlyBetweenAttempts ==
    \A t \in Threads :
        LET c == rq[t]
            n == Len(c.trace)
        IN  /\ settings.REQUEST_RETRY_DELAY = None => Count(c.trace, "retry_delay") = 0
            /\ (Ended(c) /\ n > 0) => c.trace[n] # "retry_delay"
            /\ (c.pc = "raised" /\ c.retries >= 1 /\ settings.REQUEST_RETRY_DELAY # None) =>
                    Count(c.trace, "retry_delay") = c.retries - 1

-----------------------------------------------------------------------------
(* Properties of the Printer *)

\* a step that is one call of the Printer
IsCall(kind) == ncalls' = ncalls + 1 /\ pcall'.kind = kind

\* C6: after print_done the printer behaves as a newly constructed one: every
\* print_progress after it reports the estimate and the text that the same call,
\* at the same time, gets from a Printer constructed when print_done returned.
C6_AfterDoneAsNew ==
    pcall.kind = "update" => pcall.est = tcall.est /\ pcall.out = tcall.out

\* C7: exactly one print_progress, then print_done() without a message, logs
\* the plain DONE text.
C7_OneUpdateThenPlainDone ==
    (pcall.kind = "finish" /\ pcall.nupd = 1 /\ pcall.msg = NoMsg) =>
        pcall.out.form = "DONE"

\* C7 as amended: exactly one print_progress, then print_done() without a
\* message, logs DONE_TIME_TAKEN with the time since that print_progress read
\* the start time.
C7_OneUpdateThenTimeTaken ==
    (pcall.kind = "finish" /\ pcall.nupd = 1 /\ pcall.msg = NoMsg) =>
        /\ pcall.out.form = "DONE_TIME_TAKEN"
        /\ pcall.out.time_taken = Whole(now - pcall.t0)

\* print_progress(0, 5) and, a tick later, print_done()
C7_Witness ==
    /\ pcall.kind = "finish" /\ pcall.nupd = 1 /\ pcall.msg = NoMsg
    /\ ncalls = 2 /\ pcall.t0 = 0 /\ now = 1

\* C8: print_done never raises; with a non-empty message it logs DONE_MSG with
\* that message; without one it logs the plain DONE exactly when the operation
\* had no print_progress, and otherwise DONE_TIME_TAKEN with the time since the
\* first print_progress of the operation read the start time.
C8_DoneForm ==
    pcall.kind = "finish" =>
        /\ pcall.err = "none"
        /\ IF pcall.msg # NoMsg /\ pcall.msg # ""
           THEN pcall.out.form = "DONE_MSG" /\ pcall.out.msg = pcall.msg
           ELSE IF pcall.nupd = 0
                THEN pcall.out.form = "DONE"
                ELSE /\ pcall.out.form = "DONE_TIME_TAKEN"
                     /\ pcall.out.time_taken = Whole(now - pcall.t0)

\* two print_progress calls, the second a tick after the first, then print_done("")
C8_Witness ==
    /\ pcall.kind = "finish" /\ pcall.nupd = 2 /\ pcall.msg = ""
    /\ pcall.out.form = "DONE_TIME_TAKEN" /\ pcall.out.time_taken = Whole(1)
    /\ now = 2

\* C9: print_done never raises, and a print_done that follows a print_done
\* leaves the printer as the first left it and, without a message, logs the
\* plain DONE.
C9_DoneTwice ==
    [][/\ IsCall("finish") => pcall'.err = "none"
       /\ (IsCall("finish") /\ pcall.kind = "finish") =>
              /\ printer' = printer
              /\ ~Truthy(pcall'.msg) => pcall'.out.form = "DONE"]_vars

\* print_progress, print_done, print_done
C9_Witness ==
    /\ pcall.kind = "finish" /\ pcall.prev = "finish" /\ pcall.msg = NoMsg
    /\ ncalls = 3 /\ now > 0

\* C10: a print_progress that is not the first of its operation and whose
\* percent is the percent of the call before it reports the estimate that call
\* reported, and changes neither the window, the time of the last change, the
\* stored estimate nor the start time.
C10_SamePercentReuses ==
    [][(/\ IsCall("update")
        /\ ~printer.is_first_print
        /\ printer.last_percent = Whole((pcall'.curr * 100) \div pcall'.total))
       => /\ pcall'.est = pcall.est
          /\ printer'.est_time_lefts = printer.est_time_lefts
          /\ printer'.last_percent_print_time = printer.last_percent_print_time
          /\ printer'.last_percent_time_left = printer.last_percent_time_left
          /\ printer'.start_time = printer.start_time]_vars

\* 0%, then 20% a tick later, then 20% again: the second estimate is reported twice
C10_Witness ==
    /\ pcall.kind = "update" /\ pcall.branch = "same" /\ pcall.nupd = 3
    /\ pcall.est.k = "num" /\ pcall.est.n > 0
    /\ printer.last_percent = Whole(20)

\* C11: the first print_progress after construction or after a print_done
\* reports float("inf") whatever curr and total are, clears the first-print
\* flag, records the start time and the time of the last change, and leaves the
\* window alone; no later print_progress changes the start time, and print_done
\* clears it.
C11_FirstUpdate ==
    [][/\ (IsCall("update") /\ pcall.kind # "update") =>
              /\ pcall'.err = "none"
              /\ pcall'.est = Inf
              /\ pcall'.out.form = "PROGRESS_WITH_TIME_LEFT"
              /\ ~printer'.is_first_print
              /\ printer'.start_time = Whole(now')
              /\ printer'.last_percent_print_time.k = "num"
              /\ printer'.last_percent_print_time.n >= now
              /\ printer'.last_percent_print_time.n <= now'
              /\ printer'.est_time_lefts = printer.est_time_lefts
       /\ (IsCall("update") /\ pcall.kind = "update") =>
              printer'.start_time = printer.start_time /\ printer.start_time # None
       /\ IsCall("finish") => printer'.start_time = None]_vars

\* print_done, then print_progress(5, 5): the first of a new operation, at 100%,
\* and the clock moved between its two reads
C11_Witness ==
    /\ pcall.kind = "update" /\ pcall.prev = "finish" /\ pcall.est = Inf
    /\ pcall.curr = 5 /\ pcall.total = 5 /\ printer.last_percent = Whole(100)
    /\ printer.start_time = Whole(1) /\ printer.last_percent_print_time = Whole(0)

\* C12: when the percent grows with every print_progress of an operation, the
\* total is positive, the last print_progress reaches 100% and print_done
\* follows, no call raises and the call that reached the total reports 100%, on
\* a new Printer and on one that print_done has reset.
C12_CountingUpNeverRaises ==
    /\ pcall.err = "none"
    /\ pcall.branch # "raise"
    /\ (pcall.kind = "update" /\ pcall.curr = pcall.total) =>
           /\ pcall.out.curr_percent = 100
           /\ printer.last_percent = Whole(100)
    /\ pcall.kind = "finish" => pcall.out.form \in {"DONE", "DONE_TIME_TAKEN"}

\* print_done, four growing print_progress calls up to the total, print_done
C12_Witness ==
    /\ pcall.kind = "finish" /\ pcall.prev = "update" /\ pcall.err = "none"
    /\ pcall.nupd = 4 /\ ncalls = 6
    /\ pcall.out.form = "DONE_TIME_TAKEN"

\* C13: between a construction or print_done and the next print_done,
\* last_percent never goes down: after every print_progress it is at least what
\* it was after the print_progress before.
C13_PercentNeverDrops ==
    [][(IsCall("update") /\ pcall.kind = "update" /\ pcall'.err = "none") =>
           printer'.last_percent.n >= printer.last_percent.n]_vars

-----------------------------------------------------------------------------
(* Properties of req called with and without log_req, and by two threads *)

\* two activations of req that differ in log_req alone
SameRequest(a, b) ==
    /\ a.pc # "idle" /\ b.pc # "idle"
    /\ a.req_type = b.req_type /\ a.retries = b.retries /\ a.err_msg = b.err_msg
    /\ a.log_req /\ ~b.log_req

\* C14: logging does not steer req: two calls with the same arguments but
\* log_req, whose attempts so far gave the same outcomes, are at the same place
\* with the same attempts and sleeps behind them, and end alike; and a call never
\* ends with an exception that log raised.
C14_LoggingKeepsControlFlow ==
    /\ \A t \in Threads : rq[t].pc = "raised" => rq[t].result.kind = "ReqException"
    /\ \A a, b \in Threads :
           (SameRequest(rq[a], rq[b]) /\ rq[a].seen = rq[b].seen
                /\ Ended(rq[a]) /\ Ended(rq[b])) =>
               /\ rq[a].trace = rq[b].trace
               /\ rq[a].pc = rq[b].pc
               /\ rq[a].result = rq[b].result

\* the spellings that equal 'GET' when case is ignored
GetSpellings == {"GET", "GEt", "GeT", "Get", "gET", "gEt", "geT", "get"}

Failures(seq) == Cardinality({i \in DOMAIN seq : Transient(seq[i])})

\* C19: curr_retries belongs to one call of req: while calls of two threads
\* interleave, each call has counted its own failed attempts and nothing else,
\* has made at most `retries` attempts, and raises ReqException only when
\* `retries` attempts of its own have failed; a call that has made no attempt
\* has a count of 0.
C19_RetriesArePrivate ==
    \A t \in Threads :
        LET c == rq[t]
        IN  c.pc # "idle" =>
                /\ Len(c.seen) <= c.retries
                /\ c.curr_retries <= Failures(c.seen)
                /\ c.pc \in {"while", "try"} => c.curr_retries = Failures(c.seen)
                /\ c.seen = <<>> => c.curr_retries = 0
                /\ (c.pc = "raised" /\ c.result.kind = "ReqException") =>
                       Failures(c.seen) = c.retries /\ Len(c.seen) = c.retries

\* both threads are in req: one has used up its budget of 1 and raised, the
\* other, with a budget of 2, failed once, tried again and returned
C19_Witness ==
    \E a, b \in Threads :
        /\ rq[a].pc = "raised" /\ rq[a].retries = 1 /\ Len(rq[a].seen) = 1
        /\ rq[a].result.kind = "ReqException"
        /\ rq[b].pc = "returned" /\ rq[b].retries = 2 /\ Len(rq[b].seen) = 2
        /\ rq[b].curr_retries = 1

-----------------------------------------------------------------------------
(* Properties of the window of the Printer *)

\* C16: est_time_lefts holds 5 samples in every state: after __init__, after
\* every print_progress (the branch of a changed percent appends one sample and
\* drops the oldest) and after every print_done.
C16_WindowOfFive ==
    /\ Len(printer.est_time_lefts) = 5
    /\ pcall.kind = "finish" => printer.est_time_lefts = PrinterNew.est_time_lefts

\* the k most recent samples of a window (all of them when it holds fewer)
MostRecent(w, k) == SubSeq(w, IF k < Len(w) THEN Len(w) - k + 1 ELSE 1, Len(w))

\* C17: a print_progress that is not the first of its operation and whose
\* percent has grown appends (now - last_percent_print_time) / (percent -
\* last_percent) * (100 - percent) to the window and drops the oldest sample;
\* with chunk_left = round((100 - percent) / (percent - last_percent)) it reports
\* 0 when chunk_left = 0, the mean of the chunk_left most recent samples when
\* 0 < chunk_left < 5, and the mean of all 5 samples otherwise; the report is
\* stored in last_percent_time_left and last_percent_print_time becomes now.
C17_AdvanceEstimate ==
    [][(/\ IsCall("update") /\ pcall.kind = "update" /\ pcall'.err = "none"
        /\ printer'.last_percent.n > printer.last_percent.n) =>
          LET percent == printer'.last_percent.n
              diff == percent - printer.last_percent.n
              t == printer'.last_percent_print_time.n
              sample == Num((t - printer.last_percent_print_time.n) * (100 - percent), diff)
              window == Tail(Append(printer.est_time_lefts, sample))
              chunkLeft == Round(100 - percent, diff)
              report == IF chunkLeft = 0 THEN Whole(0)
                        ELSE IF chunkLeft < 5
                             THEN DivInt(Sum(MostRecent(window, chunkLeft)), chunkLeft)
                             ELSE DivInt(Sum(window), 5)
          IN  /\ t >= now /\ t <= now'
              /\ printer'.est_time_lefts = window
              /\ Len(window) = 5
              /\ pcall'.est = report
              /\ printer'.last_percent_time_left = report]_vars

\* C18: the text of print_progress is the one with the time left exactly when
\* the reported estimate is not 0; a print_progress that is not the first of its
\* operation and takes the percent to 100 reports 0 and prints the text without
\* the time left, whatever the window holds.
C18_TimeLeftClause ==
    [][(IsCall("update") /\ pcall'.err = "none") =>
          /\ pcall'.out.form = "PROGRESS_WITH_TIME_LEFT" <=> pcall'.est # Whole(0)
          /\ pcall'.out.form = "PROGRESS_TEXT" <=> pcall'.est = Whole(0)
          /\ pcall'.out.form = "PROGRESS_WITH_TIME_LEFT" => pcall'.out.time_left = pcall'.est
          /\ (/\ pcall.kind = "update"
              /\ printer.last_percent # Whole(100)
              /\ printer'.last_percent = Whole(100)) =>
                 /\ pcall'.est = Whole(0)
                 /\ pcall'.out.form = "PROGRESS_TEXT"
                 /\ pcall'.out.time_left = None]_vars

\* the third print_progress of an operation reaches 100% with a sample that is
\* not 0 in the window, and reports 0 in the text without the time left
C18_Witness ==
    /\ pcall.kind = "update" /\ pcall.nupd = 3 /\ pcall.branch = "advance"
    /\ printer.last_percent = Whole(100)
    /\ \E i \in DOMAIN printer.est_time_lefts : printer.est_time_lefts[i] # Whole(0)
    /\ pcall.est = Whole(0) /\ pcall.out.form = "PROGRESS_TEXT"

====
